---- MODULE Spec2Model ----
(***************************************************************************)
(* hexdump2: the line generator _line_gen, the entry point hexdump and the *)
(* process-wide COLOR_ALWAYS flag of src/src/hexdump2/hexdump2.py.         *)
(*                                                                         *)
(* Text is a sequence of characters, each character a one-character        *)
(* string; the escape character 0x1b is the token "ESC".  A Python int     *)
(* (unbounded) is a little-endian sequence of base-16 digits without       *)
(* leading zeros, so that addresses above 32 bits are representable.       *)
(***************************************************************************)
EXTENDS Integers, Sequences, FiniteSets, TLC

VARIABLES
    environ,        \* os.environ: the three variables the module reads
    colorama,       \* TRUE iff `import colorama` succeeded (line 7-13)
    os_name,        \* "posix" or "nt": decides os.linesep
    COLOR_ALWAYS,   \* the module global of line 15
    last_enable,    \* history: <<enable>> of the latest color_always call, <<>> before any
    data,           \* the caller's data argument
    offset,         \* the caller's offset argument (a Python int)
    collapse,       \* the caller's collapse argument
    call,           \* history: the latest hexdump call's arguments and the flag at the call
    gen,            \* the generator object made by the latest hexdump call
    yielded,        \* lines the caller got from next() on the returned generator
    stdout,         \* characters printed by the latest hexdump call
    ret,            \* the string returned by the latest hexdump call
    exc,            \* exception raised by the latest call or next()
    hd_obj,         \* the hd object: _result, _result_lines, _line_pos
    hd_hist         \* history: what next() on the hd object returned and raised

vars == <<environ, colorama, os_name, COLOR_ALWAYS, last_enable, data, offset,
          collapse, call, gen, yielded, stdout, ret, exc, hd_obj, hd_hist>>

-----------------------------------------------------------------------------
(* Bounds of the model *)

\* Most full 16-byte rows of an input
MaxRows == 4

-----------------------------------------------------------------------------
(* Characters and Python ints *)

HexChars == <<"0", "1", "2", "3", "4", "5", "6", "7",
              "8", "9", "a", "b", "c", "d", "e", "f">>

\* chr(b) for 0x20 <= b <= 0x7e, indexed from 1 (chr(0x60) is the token "GRAVE")
PrintableChars == <<" ", "!", "\"", "#", "$", "%", "&", "'", "(", ")", "*", "+",
    ",", "-", ".", "/", "0", "1", "2", "3", "4", "5", "6", "7", "8", "9", ":",
    ";", "<", "=", ">", "?", "@", "A", "B", "C", "D", "E", "F", "G", "H", "I",
    "J", "K", "L", "M", "N", "O", "P", "Q", "R", "S", "T", "U", "V", "W", "X",
    "Y", "Z", "[", "\\", "]", "^", "_", "GRAVE", "a", "b", "c", "d", "e", "f", "g",
    "h", "i", "j", "k", "l", "m", "n", "o", "p", "q", "r", "s", "t", "u", "v",
    "w", "x", "y", "z", "{", "|", "}", "~">>

Max(a, b) == IF a >= b THEN a ELSE b

Min(a, b) == IF a <= b THEN a ELSE b

Spaces(n) == [i \in 1..n |-> " "]

RECURSIVE Concat(_)
\* "".join(lines)
Concat(ss) == IF ss = <<>> THEN <<>> ELSE Head(ss) \o Concat(Tail(ss))

RECURSIVE IntDigits(_)
\* a machine-size n >= 0 as a Python int
IntDigits(n) == IF n = 0 THEN <<>> ELSE <<n % 16>> \o IntDigits(n \div 16)

RECURSIVE IntAdd(_, _)
\* a + n for a Python int a and a machine-size n >= 0
IntAdd(a, n) ==
    IF n = 0 THEN a
    ELSE IF a = <<>> THEN IntDigits(n)
    ELSE <<(Head(a) + n) % 16>> \o IntAdd(Tail(a), (Head(a) + n) \div 16)

\* a slip in the format spec: a fixed width of 8 digits, the high digits cut
Format08x_Fixed8(a) ==
    [i \in 1..8 |-> IF 9 - i > Len(a) THEN "0" ELSE HexChars[a[9 - i] + 1]]

\* the format spec 08x: lowercase hex, zero-filled to at least 8 digits
Format08x(a) ==
    [i \in 1..Max(0, 8 - Len(a)) |-> "0"] \o [i \in 1..Len(a) |-> HexChars[a[Len(a) + 1 - i] + 1]]

\* the format spec 02x of one byte
Format02x(b) == <<HexChars[(b \div 16) + 1], HexChars[(b % 16) + 1]>>

\* the format spec ": <width": left-justified, space-filled, never cut
LJust(s, width) == s \o Spaces(Max(0, width - Len(s)))

\* os.linesep
linesep == IF os_name = "nt" THEN <<"\r", "\n">> ELSE <<"\n">>

\* colorama.Fore.<colour>: ESC [ 3 <c> m
Fore(c) == <<"ESC", "[", "3", c, "m">>

Fore_RED == Fore("1")

Fore_GREEN == Fore("2")

Fore_YELLOW == Fore("3")

Fore_CYAN == Fore("6")

Fore_RESET == Fore("9")

-----------------------------------------------------------------------------
(* The translation tables, lines 34-66 *)

_non_color_map_ascii(b) ==
    IF b >= 32 /\ b < 127 THEN <<PrintableChars[b - 31]>> ELSE <<".">>

_non_color_map_hex_str(b) == Format02x(b) \o <<" ">>

_color_map_ascii(b) ==
    IF colorama
    THEN IF b = 0 THEN Fore_RESET \o <<".">>
         ELSE IF b < 32 THEN Fore_CYAN \o <<".">>
         ELSE IF b < 127 THEN Fore_YELLOW \o <<PrintableChars[b - 31]>>
         ELSE Fore_CYAN \o <<".">>
    ELSE _non_color_map_ascii(b)

\* a slip at lines 52-53: the ranges split after 0x7f, so DEL takes the printable colour
_color_map_hex_str_DelPrintable(b) ==
    IF colorama
    THEN IF b = 0 THEN Fore_RESET \o Format02x(0) \o <<" ">>
         ELSE IF b < 32 THEN Fore_CYAN \o Format02x(b) \o <<" ">>
         ELSE IF b < 128 THEN Fore_YELLOW \o Format02x(b) \o <<" ">>
         ELSE Fore_CYAN \o Format02x(b) \o <<" ">>
    ELSE _non_color_map_hex_str(b)

_color_map_hex_str(b) ==
    IF colorama
    THEN IF b = 0 THEN Fore_RESET \o Format02x(0) \o <<" ">>
         ELSE IF b < 32 THEN Fore_CYAN \o Format02x(b) \o <<" ">>
         ELSE IF b < 127 THEN Fore_YELLOW \o Format02x(b) \o <<" ">>
         ELSE Fore_CYAN \o Format02x(b) \o <<" ">>
    ELSE _non_color_map_hex_str(b)

\* the 256-entry table of lines 62-66, used with bytes.translate
_ascii_str_map(b) ==
    IF b >= 32 /\ b <= 126 THEN PrintableChars[b - 31] ELSE "."

RECURSIVE Translate(_, _)
\* str.translate with one of the maps above; scheme TRUE selects the colour maps
Translate(bs, m) ==
    IF bs = <<>> THEN <<>>
    ELSE (CASE m = "color_hex" -> _color_map_hex_str(Head(bs))
            [] m = "color_ascii" -> _color_map_ascii(Head(bs))
            [] m = "hex" -> _non_color_map_hex_str(Head(bs))
            [] OTHER -> _non_color_map_ascii(Head(bs)))
         \o Translate(Tail(bs), m)

RECURSIVE BytesHex(_)
\* bytes.hex with a space separator: two digits per byte, one space between bytes
BytesHex(bs) ==
    IF bs = <<>> THEN <<>>
    ELSE IF Len(bs) = 1 THEN Format02x(bs[1])
    ELSE Format02x(Head(bs)) \o <<" ">> \o BytesHex(Tail(bs))

\* bytes.translate(_ascii_str_map).decode
AsciiField(bs) == [i \in 1..Len(bs) |-> _ascii_str_map(bs[i])]

\* data[a : b] of Python, a and b 0-based
Slice(bs, a, b) == SubSeq(bs, a + 1, Min(b, Len(bs)))

-----------------------------------------------------------------------------
(* _line_gen, lines 69-152 *)

\* Python's None
None == "None"

\* no bytes object: the value of last_line_data before the first row
NoBytes == <<-1>>

\* len(data); a data object without __len__ has none (kind "nolen")
DataLen(d) == IF d.kind = "bytes" THEN Len(d.bytes) ELSE d.len

\* the colour scheme chosen at lines 81-99
Scheme(color) ==
    IF color /\ colorama
    THEN [addr_color |-> Fore_GREEN, star_line_color |-> Fore_RED,
          reset_color |-> Fore_RESET,
          char_map_ascii |-> "color_ascii", char_map_hex_str |-> "color_hex"]
    ELSE [addr_color |-> <<>>, star_line_color |-> <<>>, reset_color |-> <<>>,
          char_map_ascii |-> "ascii", char_map_hex_str |-> "hex"]

\* a slip at line 108: the line without its separator, like the line of 152
EmptyInputLine_NoSep(g) == Scheme(g.color).addr_color \o Format08x(g.offset)

\* line 108: the only line of an empty input read at a non-zero offset
EmptyInputLine(g) == Scheme(g.color).addr_color \o Format08x(g.offset) \o linesep

\* a slip at line 128: a short chunk compared with the start of the row before it
IsRepeat_Prefix(coll, line_data, last_line_data) ==
    /\ coll
    /\ last_line_data # NoBytes
    /\ line_data = SubSeq(last_line_data, 1, Len(line_data))

\* line 128: is this row a repeat of the row before it
IsRepeat(coll, line_data, last_line_data) == coll /\ line_data = last_line_data

\* line 132
StarLine(g) == Scheme(g.color).star_line_color \o <<"*">> \o linesep

\* a slip at line 139: the widest padding whatever the number of bytes
first_pad_Widest(line_data) == 25 + 40

\* line 139
first_pad(line_data) == 25 + Min(Len(line_data) * 5, 40)

\* line 140
second_pad(line_data) == 25 + Min(Max(0, Len(line_data) - 8) * 5, 40)

\* line 142: a row when color was requested
ColorRowLine(g, line_data, addr) ==
    LET sch == Scheme(g.color) IN
    sch.addr_color \o Format08x(IntAdd(g.offset, addr)) \o <<" ", " ">>
    \o LJust(Translate(Slice(line_data, 0, 8), sch.char_map_hex_str), first_pad(line_data))
    \o LJust(Translate(Slice(line_data, 8, 16), sch.char_map_hex_str), second_pad(line_data))
    \o sch.reset_color \o <<"|">>
    \o Translate(line_data, sch.char_map_ascii)
    \o sch.reset_color \o <<"|">> \o linesep

\* a slip at line 145: the two hex groups not padded to their width
PlainRowLine_Unpadded(g, line_data, addr) ==
    Format08x(IntAdd(g.offset, addr)) \o <<" ", " ">>
    \o BytesHex(Slice(line_data, 0, 8)) \o <<" ", " ">>
    \o BytesHex(Slice(line_data, 8, 16)) \o <<" ", " ">>
    \o <<"|">> \o AsciiField(line_data) \o <<"|">> \o linesep

\* line 145: a row when color was not requested
PlainRowLine(g, line_data, addr) ==
    Format08x(IntAdd(g.offset, addr)) \o <<" ", " ">>
    \o LJust(BytesHex(Slice(line_data, 0, 8)), 25)
    \o LJust(BytesHex(Slice(line_data, 8, 16)), 25)
    \o <<"|">> \o AsciiField(line_data) \o <<"|">> \o linesep

\* lines 137-145
RowLine(g, line_data, addr) ==
    IF g.color THEN ColorRowLine(g, line_data, addr)
    ELSE PlainRowLine(g, line_data, addr)

\* a slip at line 152: the last line ended like every other line
FinalLine_WithSep(g) ==
    Scheme(g.color).addr_color \o Format08x(IntAdd(g.offset, Len(g.data.bytes)))
    \o Scheme(g.color).reset_color \o linesep

\* line 152: the address past the last byte, without a line separator
FinalLine(g) ==
    Scheme(g.color).addr_color \o Format08x(IntAdd(g.offset, Len(g.data.bytes)))
    \o Scheme(g.color).reset_color

\* calling the generator function binds the arguments and runs nothing
_line_gen(d, o, coll, color) ==
    [pc |-> "created", data |-> d, offset |-> o, collapse |-> coll, color |-> color,
     addr |-> 0, line_data |-> NoBytes, last_line_data |-> NoBytes, yield_star |-> TRUE]

Yield(g, line) == [gen |-> g, line |-> line, out |-> "yield"]

\* a slip at line 131: the flag that the star was shown is not cleared
SuspendAtStar_FlagKept(g) == [g EXCEPT !.pc = "yield132"]

\* lines 130-132: the star is shown once, the generator is suspended at its yield
SuspendAtStar(g) == [g EXCEPT !.yield_star = FALSE, !.pc = "yield132"]

\* line 149 and the loop header, after the star of line 132
ResumeAfterStar(g) == [g EXCEPT !.last_line_data = g.line_data, !.addr = @ + 16]

\* lines 147-149 and the loop header, after the row of line 142 or 145
ResumeAfterRow(g) ==
    [g EXCEPT !.yield_star = TRUE, !.last_line_data = g.line_data, !.addr = @ + 16]

Raise(g, e) == [gen |-> [g EXCEPT !.pc = "closed"], line |-> <<>>, out |-> e]

RECURSIVE Loop(_)
\* lines 126-152 from the top of the iteration at g.addr up to the next yield
Loop(g) ==
    IF g.addr >= Len(g.data.bytes)
    THEN Yield([g EXCEPT !.pc = "yield152"], FinalLine(g))
    ELSE LET line_data == Slice(g.data.bytes, g.addr, g.addr + 16)
             g1 == [g EXCEPT !.line_data = line_data]
         IN  IF IsRepeat(g.collapse, line_data, g.last_line_data)
             THEN IF g.yield_star
                  THEN Yield(SuspendAtStar(g1), StarLine(g))
                  ELSE Loop([g1 EXCEPT !.addr = @ + 16])
             ELSE Yield([g1 EXCEPT !.pc = "yield142"], RowLine(g, line_data, g.addr))

\* lines 80-124: the body up to the loop, run by the first next()
Start(g) ==
    IF g.data.kind = "nolen" THEN Raise(g, "TypeError")
    ELSE IF DataLen(g.data) = 0
    THEN IF g.offset # <<>>
         THEN Yield([g EXCEPT !.pc = "yield108"], EmptyInputLine(g))
         ELSE Raise(g, "StopIteration")
    ELSE IF g.data.kind # "bytes" THEN Raise(g, "TypeError")
    ELSE Loop([g EXCEPT !.last_line_data = NoBytes, !.yield_star = TRUE, !.addr = 0])

\* next(gen): run the generator from where it is suspended to its next yield
GenNext(g) ==
    CASE g.pc = "created" -> Start(g)
      [] g.pc = "yield132" -> Loop(ResumeAfterStar(g))
      [] g.pc = "yield142" -> Loop(ResumeAfterRow(g))
      [] OTHER -> Raise(g, "StopIteration")

RECURSIVE Drain(_)
\* exhaust the generator, as "".join(gen) and `for line in gen` do
Drain(g) ==
    LET r == GenNext(g) IN
    IF r.out = "yield"
    THEN LET rest == Drain(r.gen) IN [rest EXCEPT !.lines = <<r.line>> \o @]
    ELSE [gen |-> r.gen, lines |-> <<>>, out |-> r.out]

-----------------------------------------------------------------------------
(* The module globals and the entry points *)

\* bool(environ.get(name, False))
EnvBool(v) == v # None /\ v # ""

NoExc == [type |-> None, at |-> None]

NoRet == [kind |-> None, value |-> <<>>]

\* lines 18-31
color_always(enable) ==
    /\ COLOR_ALWAYS' = IF EnvBool(environ.NO_COLOR) \/ environ.TERM = "dumb"
                       THEN FALSE ELSE enable
    /\ last_enable' = <<enable>>
    /\ UNCHANGED <<environ, colorama, os_name, data, offset, collapse, call, gen,
                   yielded, stdout, ret, exc, hd_obj, hd_hist>>

\* a slip at lines 172-173: the flag is not consulted
EffectiveColor_ArgOnly(color) == color

\* lines 172-173: the flag, when set, replaces the caller's color argument
EffectiveColor(color) == IF COLOR_ALWAYS THEN COLOR_ALWAYS ELSE color

\* a slip at lines 176-190: printing is the default and nothing is rejected
ResultBranch_PrintByDefault(result) ==
    IF result \in {"return", "generator"} THEN result ELSE "print"

\* lines 176-190: the branch that a result argument selects
ResultBranch(result) ==
    IF result \in {"print", "return", "generator"} THEN result ELSE "ValueError"

\* lines 155-190
hexdump(result, color) ==
    LET g == _line_gen(data, offset, collapse, EffectiveColor(color))
        run == Drain(g)
        branch == ResultBranch(result)
        raised == IF run.out = "StopIteration" THEN NoExc
                  ELSE [type |-> run.out, at |-> "hexdump"]
    IN  /\ call' = [result |-> result, color |-> color, flag |-> COLOR_ALWAYS,
                    last_enable |-> last_enable]
        /\ yielded' = <<>>
        /\ \/ /\ branch = "print"
              /\ stdout' = Concat(run.lines)
                             \o (IF run.out = "StopIteration" THEN <<"\n">> ELSE <<>>)
              /\ ret' = NoRet
              /\ gen' = run.gen
              /\ exc' = raised
           \/ /\ branch = "return"
              /\ stdout' = <<>>
              /\ ret' = IF run.out = "StopIteration"
                        THEN [kind |-> "str", value |-> Concat(run.lines)]
                        ELSE NoRet
              /\ gen' = run.gen
              /\ exc' = raised
           \/ /\ branch = "generator"
              /\ stdout' = <<>>
              /\ ret' = [kind |-> "generator", value |-> <<>>]
              /\ gen' = g
              /\ exc' = NoExc
           \/ /\ branch = "ValueError"
              /\ stdout' = <<>>
              /\ ret' = NoRet
              /\ gen' = g
              /\ exc' = [type |-> "ValueError", at |-> "hexdump"]
        /\ UNCHANGED <<environ, colorama, os_name, COLOR_ALWAYS, last_enable,
                       data, offset, collapse, hd_obj, hd_hist>>

\* next() by the caller on the generator that hexdump returned
next ==
    /\ ret.kind = "generator"
    /\ LET r == GenNext(gen) IN
        /\ gen' = r.gen
        /\ yielded' = IF r.out = "yield" THEN Append(yielded, r.line) ELSE yielded
        /\ exc' = IF r.out = "yield" THEN NoExc ELSE [type |-> r.out, at |-> "next"]
    /\ UNCHANGED <<environ, colorama, os_name, COLOR_ALWAYS, last_enable,
                   data, offset, collapse, call, stdout, ret, hd_obj, hd_hist>>

-----------------------------------------------------------------------------
(* The class hd, lines 194-232 *)

\* Most complete iterations over one hd object
MaxPasses == 2

\* no hd object was constructed
NoHd == [made |-> FALSE, _result |-> <<>>, _result_lines |-> <<>>, _line_pos |-> 0]

\* got: lines returned since the position was last 0; passes: the lines of each
\* iteration that ended with StopIteration; raised: what the latest call raised
NoHdHist == [got |-> <<>>, passes |-> <<>>, raised |-> None]

\* where the first line boundary of s ends: at \n, at \r\n or at a lone \r
LineBreak(s) ==
    IF \E i \in 1..Len(s) : s[i] \in {"\n", "\r"}
    THEN LET i == CHOOSE k \in 1..Len(s) :
                      s[k] \in {"\n", "\r"} /\ \A j \in 1..(k - 1) : s[j] \notin {"\n", "\r"}
         IN  [at |-> i,
              next |-> IF s[i] = "\r" /\ i < Len(s) /\ s[i + 1] = "\n" THEN i + 2 ELSE i + 1]
    ELSE [at |-> 0, next |-> 0]

RECURSIVE splitlines(_)
\* str.splitlines(): the lines without their line boundaries
splitlines(s) ==
    IF s = <<>> THEN <<>>
    ELSE LET b == LineBreak(s) IN
         IF b.at = 0 THEN <<s>>
         ELSE <<SubSeq(s, 1, b.at - 1)>> \o splitlines(SubSeq(s, b.next, Len(s)))

\* a slip at line 230: the position is left past the end
HdExhausted_NoReset(o) == o

\* lines 228-231: the IndexError handler puts the position back to 0
HdExhausted(o) == [o EXCEPT !._line_pos = 0]

\* lines 203-212: hd(data, offset=offset, collapse=collapse); color is not passed
hd_init ==
    /\ ~hd_obj.made
    /\ hd_hist.raised = None
    /\ LET run == Drain(_line_gen(data, offset, collapse, FALSE)) IN
       IF run.out = "StopIteration"
       THEN /\ hd_obj' = [made |-> TRUE, _result |-> Concat(run.lines),
                          _result_lines |-> <<>>, _line_pos |-> 0]
            /\ hd_hist' = NoHdHist
       ELSE /\ hd_obj' = hd_obj
            /\ hd_hist' = [hd_hist EXCEPT !.raised = run.out]
    /\ UNCHANGED <<environ, colorama, os_name, COLOR_ALWAYS, last_enable, data, offset,
                   collapse, call, gen, yielded, stdout, ret, exc>>

\* lines 220-232: next() on the hd object; _result_lines is <<>> for None
hd_next ==
    /\ hd_obj.made
    /\ Len(hd_hist.passes) < MaxPasses
    /\ LET lines == IF hd_obj._result_lines = <<>>
                    THEN splitlines(hd_obj._result)
                    ELSE hd_obj._result_lines[1]
           o == [hd_obj EXCEPT !._result_lines = <<lines>>]
       IN  IF o._line_pos < Len(lines)
           THEN /\ hd_obj' = [o EXCEPT !._line_pos = @ + 1]
                /\ hd_hist' = [hd_hist EXCEPT !.got = Append(@, lines[o._line_pos + 1]),
                                              !.raised = None]
           ELSE /\ hd_obj' = HdExhausted(o)
                /\ hd_hist' = [got |-> <<>>, passes |-> Append(hd_hist.passes, hd_hist.got),
                               raised |-> "StopIteration"]
    /\ UNCHANGED <<environ, colorama, os_name, COLOR_ALWAYS, last_enable, data, offset,
                   collapse, call, gen, yielded, stdout, ret, exc>>

-----------------------------------------------------------------------------
(* Inputs *)

\* bytes(16)
ZeroRow == [i \in 1..16 |-> 0]

\* nine zero bytes, then one byte of every class up to 0xff
MixedRow == <<0, 0, 0, 0, 0, 0, 0, 0, 0, 1, 32, 65, 126, 127, 128, 255>>

Bytes(bs) == [kind |-> "bytes", len |-> Len(bs), bytes |-> bs]

\* an object without __len__
NoLenObject == [kind |-> "nolen", len |-> 0, bytes |-> <<>>]

\* an object with __len__ returning n that bytes() cannot convert
NoBytesObject(n) == [kind |-> "noconv", len |-> n, bytes |-> <<>>]

RECURSIVE RowSeqs(_)
\* every sequence of exactly n full rows
RowSeqs(n) ==
    IF n = 0 THEN {<<>>}
    ELSE {r \o rest : r \in {ZeroRow, MixedRow}, rest \in RowSeqs(n - 1)}

\* a last chunk shorter than a row: none, or the start of one of the rows
Tails == {<<>>, SubSeq(ZeroRow, 1, 1), SubSeq(ZeroRow, 1, 9), SubSeq(MixedRow, 1, 15)}

ByteInputs == {Bytes(rows \o tail) : rows \in UNION {RowSeqs(n) : n \in 0..MaxRows}, tail \in Tails}

\* 0, 0xfffffff0 and 2^48 - 1
Offsets == {<<>>, <<0, 15, 15, 15, 15, 15, 15, 15>>, [i \in 1..12 |-> 15]}

SmallInputs == {Bytes(<<>>), Bytes(ZeroRow), Bytes(ZeroRow \o ZeroRow \o SubSeq(ZeroRow, 1, 9)),
                NoLenObject, NoBytesObject(0), NoBytesObject(1)}

EnvValues == {None, "", "1"}

Environs == [HD2_EN_CLR : EnvValues, NO_COLOR : EnvValues, TERM : {None, "dumb", "xterm"}]

NoEnviron == [HD2_EN_CLR |-> None, NO_COLOR |-> None, TERM |-> None]

Results == {"print", "return", "generator", "bad_arg"}

-----------------------------------------------------------------------------
(* Specifications *)

\* the state once the module is imported (line 15 seeds the flag) and before any call
InitWith(envs, platforms, inputs, offsets, collapses) ==
    /\ environ \in envs
    /\ colorama \in BOOLEAN
    /\ os_name \in platforms
    /\ COLOR_ALWAYS = EnvBool(environ.HD2_EN_CLR)
    /\ last_enable = <<>>
    /\ data \in inputs
    /\ offset \in offsets
    /\ collapse \in collapses
    /\ call = [result |-> None, color |-> FALSE, flag |-> FALSE, last_enable |-> <<>>]
    /\ gen = [_line_gen(data, offset, collapse, FALSE) EXCEPT !.pc = "closed"]
    /\ yielded = <<>>
    /\ stdout = <<>>
    /\ ret = NoRet
    /\ exc = NoExc
    /\ hd_obj = NoHd
    /\ hd_hist = NoHdHist

Init == InitWith(Environs, {"posix"}, SmallInputs, {<<>>, <<0, 2>>}, {TRUE})

Next ==
    \/ \E enable \in BOOLEAN : color_always(enable)
    \/ \E result \in Results, color \in BOOLEAN : hexdump(result, color)
    \/ next

Spec == Init /\ [][Next]_vars

\* dumps of many inputs in a process whose environment sets none of the variables
InitLines == InitWith({NoEnviron}, {"posix", "nt"}, ByteInputs, Offsets, BOOLEAN)

\* one hexdump call per behaviour, then the consumption of what it returned
NextLines ==
    \/ \E result \in Results, color \in BOOLEAN : call.result = None /\ hexdump(result, color)
    \/ next

SpecLines == InitLines /\ [][NextLines]_vars

HdInputs == {Bytes(<<>>), Bytes(SubSeq(ZeroRow, 1, 9)), Bytes(ZeroRow \o ZeroRow),
             Bytes(ZeroRow \o ZeroRow \o MixedRow \o SubSeq(MixedRow, 1, 15)), NoLenObject}

InitHd == InitWith({NoEnviron}, {"posix", "nt"}, HdInputs, {<<>>, <<0, 2>>}, BOOLEAN)

\* an hd object and its iterations, beside one hexdump call for the same arguments
NextHd ==
    \/ hd_init
    \/ hd_next
    \/ \E result \in Results, color \in BOOLEAN : call.result = None /\ hexdump(result, color)

SpecHd == InitHd /\ [][NextHd]_vars

\* the 16 bytes 16k .. 16k + 15
ByteRow(k) == [i \in 1..16 |-> 16 * k + i - 1]

\* every byte value in a row, rows of every length, and a run of equal rows
ColorInputs ==
    {Bytes(SubSeq(ByteRow(k), 1, n)) : k \in 0..15, n \in 0..16}
    \cup {Bytes(SubSeq(MixedRow, 1, n)) : n \in 1..16}
    \cup {Bytes(ZeroRow \o ZeroRow \o ZeroRow)}

InitColor == InitWith({NoEnviron}, {"posix"}, ColorInputs, {<<>>, <<0, 2>>}, {TRUE})

NextColor ==
    \/ \E result \in Results, color \in BOOLEAN : call.result = None /\ hexdump(result, color)
    \/ next

\* one call with or without color, over rows of every length and byte value
SpecColor == InitColor /\ [][NextColor]_vars

-----------------------------------------------------------------------------
(* Reading a dump back: what a reader of the text sees *)

\* the text without its colour escapes (ESC and the four characters after it)
Visible(s) ==
    LET shown == SelectSeq([i \in 1..Len(s) |-> i],
                           LAMBDA i : \A j \in Max(1, i - 4)..i : s[j] # "ESC")
    IN  [k \in 1..Len(shown) |-> s[shown[k]]]

EndsWith(s, suffix) ==
    Len(s) >= Len(suffix) /\ SubSeq(s, Len(s) - Len(suffix) + 1, Len(s)) = suffix

StartsWith(s, prefix) == Len(s) >= Len(prefix) /\ SubSeq(s, 1, Len(prefix)) = prefix

HasSep(line) == EndsWith(line, linesep)

Body(line) == IF HasSep(line) THEN SubSeq(line, 1, Len(line) - Len(linesep)) ELSE line

\* the first position of c in s, 0 when there is none
IndexOf(s, c) ==
    IF \E i \in 1..Len(s) : s[i] = c
    THEN CHOOSE i \in 1..Len(s) : s[i] = c /\ \A j \in 1..(i - 1) : s[j] # c
    ELSE 0

IsHexChar(c) == \E d \in 1..16 : HexChars[d] = c

HexVal(c) == (CHOOSE d \in 1..16 : HexChars[d] = c) - 1

IsHexText(s) == s # <<>> /\ \A i \in 1..Len(s) : IsHexChar(s[i])

RECURSIVE StripZeros(_)
StripZeros(s) == IF s # <<>> /\ Head(s) = "0" THEN StripZeros(Tail(s)) ELSE s

\* the Python int that a hex text denotes
ParseInt(s) == LET t == StripZeros(s) IN [i \in 1..Len(t) |-> HexVal(t[Len(t) + 1 - i])]

\* the bytes that a hex field denotes
ParseBytes(s) ==
    LET t == SelectSeq(s, LAMBDA c : c # " ")
    IN  [i \in 1..(Len(t) \div 2) |-> 16 * HexVal(t[2 * i - 1]) + HexVal(t[2 * i])]

RECURSIVE SplitLines(_)
\* the lines of a text, each with its terminator
SplitLines(s) ==
    LET i == IndexOf(s, "\n") IN
    IF s = <<>> THEN <<>>
    ELSE IF i = 0 THEN <<s>>
    ELSE <<SubSeq(s, 1, i)>> \o SplitLines(SubSeq(s, i + 1, Len(s)))

\* one line as its reader sees it
ReadLine(line) ==
    LET v == Visible(Body(line))
        bar == IndexOf(v, "|")
        sp == IndexOf(v, " ")
    IN  IF v = <<"*">>
        THEN [kind |-> "star", text |-> <<>>, value |-> <<>>, bytes |-> <<>>,
              hexfield |-> <<>>, ascii |-> <<>>]
        ELSE IF bar = 0
        THEN [kind |-> IF IsHexText(v) THEN "addr" ELSE "bad", text |-> v,
              value |-> IF IsHexText(v) THEN ParseInt(v) ELSE <<>>, bytes |-> <<>>,
              hexfield |-> <<>>, ascii |-> <<>>]
        ELSE IF sp > 1 /\ sp < bar /\ v[Len(v)] = "|" /\ Len(v) > bar
                /\ IsHexText(SubSeq(v, 1, sp - 1))
                /\ \A i \in sp..(bar - 1) : v[i] = " " \/ IsHexChar(v[i])
        THEN [kind |-> "row", text |-> SubSeq(v, 1, sp - 1),
              value |-> ParseInt(SubSeq(v, 1, sp - 1)),
              bytes |-> ParseBytes(SubSeq(v, sp, bar - 1)),
              hexfield |-> SubSeq(v, sp, bar - 1),
              ascii |-> SubSeq(v, bar + 1, Len(v) - 1)]
        ELSE [kind |-> "bad", text |-> v, value |-> <<>>, bytes |-> <<>>,
              hexfield |-> <<>>, ascii |-> <<>>]

\* what a line says: its kind, the address it shows, the bytes it shows
Event(line) ==
    LET r == ReadLine(line) IN [kind |-> r.kind, value |-> r.value, bytes |-> r.bytes]

Events(lines) == [i \in 1..Len(lines) |-> Event(lines[i])]

IsPrefix(s, t) == Len(s) <= Len(t) /\ SubSeq(t, 1, Len(s)) = s

\* a + 1 for a Python int a
Succ(a) ==
    LET k == IF \E i \in 1..Len(a) : a[i] # 15
             THEN CHOOSE i \in 1..Len(a) : a[i] # 15 /\ \A j \in 1..(i - 1) : a[j] = 15
             ELSE Len(a) + 1
    IN  [i \in 1..Max(k, Len(a)) |->
            IF i < k THEN 0 ELSE IF i = k THEN (IF k > Len(a) THEN 1 ELSE a[k] + 1) ELSE a[i]]

\* a + 16 for a Python int a
Succ16(a) == IF a = <<>> THEN <<0, 1>> ELSE <<Head(a)>> \o Succ(Tail(a))

RECURSIVE Plus(_, _)
\* a + n by counting up, in sixteens and then in ones
Plus(a, n) ==
    IF n = 0 THEN a
    ELSE IF n >= 16 THEN Plus(Succ16(a), n - 16)
    ELSE Plus(Succ(a), n - 1)

\* the i-th chunk of 16 bytes, i from 0
Chunk(bs, i) == SubSeq(bs, 16 * i + 1, Min(16 * i + 16, Len(bs)))

NumChunks(bs) == (Len(bs) + 15) \div 16

\* chunk i is a full row equal to the chunk before it
Same(bs, i) == i > 0 /\ Len(Chunk(bs, i)) = 16 /\ Chunk(bs, i) = Chunk(bs, i - 1)

\* what chunk i contributes under the collapse rule of the specification
ChunkEvents(bs, o, coll, i) ==
    IF coll /\ Same(bs, i)
    THEN IF Same(bs, i - 1) THEN <<>>
         ELSE <<[kind |-> "star", value |-> <<>>, bytes |-> <<>>]>>
    ELSE <<[kind |-> "row", value |-> Plus(o, 16 * i), bytes |-> Chunk(bs, i)]>>

RECURSIVE EventsFrom(_, _, _, _)
EventsFrom(bs, o, coll, i) ==
    IF i >= NumChunks(bs)
    THEN <<[kind |-> "addr", value |-> Plus(o, Len(bs)), bytes |-> <<>>]>>
    ELSE ChunkEvents(bs, o, coll, i) \o EventsFrom(bs, o, coll, i + 1)

\* the lines expected of a non-empty input
ExpectedEvents(bs, o, coll) == EventsFrom(bs, o, coll, 0)

\* the lines the caller has: yielded by the generator, or of the returned string
OutputLines == IF ret.kind = "generator" THEN yielded ELSE SplitLines(ret.value)

\* the caller has the whole dump
Complete ==
    \/ ret.kind = "str"
    \/ ret.kind = "generator" /\ gen.pc = "closed" /\ exc.type = "StopIteration"

HasOutput == ret.kind \in {"str", "generator"}

-----------------------------------------------------------------------------
(* Claims *)

\* C1: with collapse enabled, every maximal run of two or more identical full
\* rows gives the line of its first row, then exactly one star line and nothing
\* for the other rows of the run; a later run gets its own single star.  The
\* lines the caller has are always a prefix of the expected lines, and are all
\* of them when the dump is complete.
C1_OneStarPerRun ==
    (HasOutput /\ collapse /\ data.kind = "bytes" /\ Len(data.bytes) > 0) =>
        LET got == Events(OutputLines)
            want == ExpectedEvents(data.bytes, offset, TRUE)
        IN  IF Complete THEN got = want ELSE IsPrefix(got, want)

\* C1 witness: a complete dump with two separate collapsed runs
C1_Witness ==
    /\ collapse /\ Complete /\ ret.kind = "generator"
    /\ data.bytes = ZeroRow \o ZeroRow \o MixedRow \o MixedRow
    /\ Len(SelectSeq(yielded, LAMBDA l : ReadLine(l).kind = "star")) = 2
    /\ Len(yielded) = 5

\* C2: with collapse enabled, a last chunk shorter than 16 bytes is shown as a
\* row line of its own (its bytes, its address) right before the final address
\* line, whatever the rows before it are.
C2_ShortTailShown ==
    (Complete /\ collapse /\ data.kind = "bytes" /\ Len(data.bytes) % 16 # 0) =>
        LET lines == OutputLines
            n == Len(lines)
            tail == Chunk(data.bytes, NumChunks(data.bytes) - 1)
        IN  /\ n >= 2
            /\ Event(lines[n - 1]) =
                   [kind |-> "row", bytes |-> tail,
                    value |-> Plus(offset, 16 * (NumChunks(data.bytes) - 1))]
            /\ Len(ReadLine(lines[n - 1]).ascii) = Len(tail)

\* C2 witness: nine zero bytes after a collapsed run of zero rows
C2_Witness ==
    /\ Complete /\ collapse /\ ret.kind = "generator"
    /\ data.bytes = ZeroRow \o ZeroRow \o ZeroRow \o SubSeq(ZeroRow, 1, 9)
    /\ Len(yielded) = 4
    /\ ReadLine(yielded[2]).kind = "star"
    /\ ReadLine(yielded[3]).bytes = SubSeq(ZeroRow, 1, 9)

\* the address text of a Python int: lowercase hex of at least 8 digits, all of them
IsAddressOf(text, a) ==
    /\ IsHexText(text)
    /\ ParseInt(text) = a
    /\ Len(text) = Max(8, Len(a))

\* C3: the first row shows the address offset, the final address line shows
\* offset + len(data), both as lowercase hex zero-padded to at least 8 digits and
\* never cut; the final address line is the last line and the only address line.
C3_Addresses ==
    (HasOutput /\ data.kind = "bytes" /\ Len(data.bytes) > 0) =>
        LET lines == OutputLines
            n == Len(lines)
            read == [i \in 1..n |-> ReadLine(lines[i])]
        IN  /\ n >= 1 => read[1].kind = "row" /\ IsAddressOf(read[1].text, offset)
            /\ \A i \in 1..(n - 1) : read[i].kind \in {"row", "star"}
            /\ Complete =>
                /\ n >= 2
                /\ read[n].kind = "addr"
                /\ IsAddressOf(read[n].text, Plus(offset, Len(data.bytes)))

\* C3 witness: a dump at offset 2^48 - 1 whose final address needs 13 digits
C3_Witness ==
    /\ Complete /\ ret.kind = "str"
    /\ offset = [i \in 1..12 |-> 15]
    /\ Len(data.bytes) = 32
    /\ Len(ReadLine(OutputLines[Len(OutputLines)]).text) = 13
    /\ Len(ReadLine(OutputLines[1]).text) = 12

\* the single line of an empty input at a non-zero offset
IsEmptyInputLine(line) ==
    /\ HasSep(line)
    /\ IsAddressOf(Visible(Body(line)), offset)
    /\ IF gen.color /\ colorama
       THEN StartsWith(line, Fore_GREEN) /\ Len(line) = 5 + Max(8, Len(offset)) + Len(linesep)
       ELSE Len(line) = Max(8, Len(offset)) + Len(linesep)

\* C4 as amended: for empty input, with offset 0 the returned string is empty and
\* the generator yields nothing; with offset > 0 the output is the address colour
\* (when colour is active) and the hex of the offset zero-padded to at least 8
\* digits, then one line separator, and no final address line.
C4_EmptyInput ==
    (HasOutput /\ DataLen(data) = 0) =>
        /\ ret.kind = "str" =>
              IF offset = <<>> THEN ret.value = <<>> ELSE IsEmptyInputLine(ret.value)
        /\ ret.kind = "generator" =>
              /\ offset = <<>> => yielded = <<>>
              /\ Len(yielded) <= 1
              /\ yielded # <<>> => IsEmptyInputLine(yielded[1])
              /\ (Complete /\ offset # <<>>) => Len(yielded) = 1

\* C4 witness: empty input returned as a string at offset 2^48 - 1 in colour
C4_Witness ==
    /\ ret.kind = "str" /\ DataLen(data) = 0 /\ offset = [i \in 1..12 |-> 15]
    /\ gen.color /\ colorama
    /\ Len(ret.value) = 5 + 12 + Len(linesep)

\* C4 as stated: the output for offset > 0 is exactly 8 hex digits and one line
\* separator (taken for calls without colour)
C4_Original ==
    (ret.kind = "str" /\ DataLen(data) = 0 /\ offset # <<>> /\ ~gen.color) =>
        /\ Len(ret.value) = 8 + Len(linesep)
        /\ HasSep(ret.value)
        /\ IsHexText(Body(ret.value))
        /\ ParseInt(Body(ret.value)) = offset

EndsLine(line) == HasSep(line) /\ IndexOf(line, "\n") = Len(line)

\* C6 as amended: in the dump of a non-empty input every line but the last ends
\* with the line separator and the last line has none; the single line of an
\* empty input at a non-zero offset ends with the line separator.
C6_LineSeparators ==
    (HasOutput /\ data.kind = "bytes") =>
        LET lines == OutputLines
            n == Len(lines)
        IN  IF Len(data.bytes) = 0
            THEN \A i \in 1..n : EndsLine(lines[i])
            ELSE /\ \A i \in 1..(n - 1) : EndsLine(lines[i])
                 /\ Complete => n >= 2 /\ IndexOf(lines[n], "\n") = 0
                 /\ (~Complete /\ n >= 1 /\ gen.pc # "yield152") => EndsLine(lines[n])
                 /\ ret.kind = "str" => ~HasSep(ret.value)

\* C6 witness: a complete coloured dump with a row, a star, a short row and the
\* final address line, on the platform whose separator has two characters
C6_Witness ==
    /\ Complete /\ ret.kind = "generator" /\ os_name = "nt" /\ gen.color /\ colorama
    /\ Len(yielded) = 4
    /\ ReadLine(yielded[2]).kind = "star"
    /\ ~HasSep(yielded[4])

\* C6 as stated: the last line of every dump has no line separator
C6_Original ==
    (Complete /\ data.kind = "bytes" /\ OutputLines # <<>>) =>
        ~HasSep(OutputLines[Len(OutputLines)])

-----------------------------------------------------------------------------
(* Claims about the flag and the errors, checked under Spec *)

\* NO_COLOR is set to a non-empty value, or TERM is dumb
NoColorEnv == EnvBool(environ.NO_COLOR) \/ environ.TERM = "dumb"

\* the flag as the latest color_always call leaves it without a no-colour
\* environment; as line 15 seeds it when there was no call
FlagAsLeft(le) == IF le = <<>> THEN EnvBool(environ.HD2_EN_CLR) ELSE le[1]

\* all the text that the latest hexdump call gave its caller
ProducedText ==
    IF ret.kind = "generator" THEN Concat(yielded)
    ELSE IF ret.kind = "str" THEN ret.value
    ELSE stdout

Colored(text) == \E i \in 1..Len(text) : text[i] = "ESC"

ShowsAddress(text) == \E i \in 1..Len(text) : IsHexChar(text[i])

\* C7: without a no-colour environment the flag is always what the latest
\* color_always call set (no dump changes it); every hexdump call reads that
\* flag, and its dump is coloured iff the flag is set or the caller passed
\* color = TRUE (the colour escapes appear when the colour library is present).
C7_FlagGovernsColor ==
    ~NoColorEnv =>
        /\ COLOR_ALWAYS = FlagAsLeft(last_enable)
        /\ call.result # None =>
            /\ call.flag = FlagAsLeft(call.last_enable)
            /\ gen.color = (call.flag \/ call.color)
            /\ (colorama /\ ShowsAddress(ProducedText)) =>
                   (Colored(ProducedText) <=> (call.flag \/ call.color))

\* C7 witness: a dump coloured by the flag alone, and the flag cleared after it
C7_Witness ==
    /\ ~NoColorEnv /\ colorama
    /\ call.result = "return" /\ ~call.color /\ call.last_enable = <<TRUE>>
    /\ Colored(ret.value)
    /\ last_enable = <<FALSE>> /\ ~COLOR_ALWAYS

\* C8 as stated: with a no-colour environment the flag is off from the start
\* and after every color_always call, and no dump is coloured
C8_NoColorEnvForcesOff ==
    NoColorEnv => (~COLOR_ALWAYS /\ ~Colored(ProducedText))

\* C9: a result argument other than print, return and generator raises
\* ValueError from the call, for every data, and no line was printed, returned
\* or produced: the generator made by the call never ran.
C9_BadResultRaises ==
    (call.result \notin {None, "print", "return", "generator"}) =>
        /\ exc = [type |-> "ValueError", at |-> "hexdump"]
        /\ stdout = <<>>
        /\ ret = NoRet
        /\ yielded = <<>>
        /\ gen.pc = "created"

\* C9 witness: the call with a bad result argument and an object without a length
C9_Witness ==
    /\ call.result = "bad_arg" /\ data = NoLenObject
    /\ exc.type = "ValueError"

\* the data has no length, or has one and cannot be converted to bytes
BadData == data.kind = "nolen" \/ (data.kind = "noconv" /\ data.len > 0)

\* C10 as stated: in each of the three result modes a call with such data has
\* raised TypeError when it ends, and nothing was output
C10_TypeErrorAtCall ==
    (call.result \in {"print", "return", "generator"} /\ BadData) =>
        /\ exc = [type |-> "TypeError", at |-> "hexdump"]
        /\ ProducedText = <<>>

\* the lines of a text as its reader sees them, each without its terminator
TextLines(text) == LET ls == SplitLines(text) IN [k \in 1..Len(ls) |-> Body(ls[k])]

\* C11: for an hd object whose result has n lines the position is always in
\* 0..n; the lines returned by consecutive next() calls since position 0 are
\* lines 1..position of the result, without terminators; end-of-sequence is
\* raised only after all n lines and leaves the position at 0, so every complete
\* iteration gives the same n lines; and these are the lines of the string that
\* hexdump returns for the same data, offset and collapse.
C11_HdIteration ==
    hd_obj.made =>
        LET lines == TextLines(hd_obj._result) IN
        /\ hd_obj._line_pos \in 0..Len(lines)
        /\ hd_hist.got = SubSeq(lines, 1, hd_obj._line_pos)
        /\ \A p \in 1..Len(hd_hist.passes) : hd_hist.passes[p] = lines
        /\ hd_hist.raised = "StopIteration" => hd_obj._line_pos = 0
        /\ (ret.kind = "str" /\ ~call.color /\ ~call.flag) => TextLines(ret.value) = lines

C11_Witness ==
    /\ hd_obj.made
    /\ Len(hd_hist.passes) = 2
    /\ Len(hd_hist.passes[2]) >= 4
    /\ hd_hist.raised = "StopIteration"
    /\ ret.kind = "str" /\ ~call.color
    /\ os_name = "nt"

\* the dump was made with the colour scheme of lines 81-87
ColorActive == call.result # None /\ (call.color \/ call.flag) /\ colorama

\* the lines the caller has, whichever way they were delivered
ProducedLines == IF ret.kind = "generator" THEN yielded ELSE SplitLines(ProducedText)

\* the positions of the colour escapes of a line, in order
EscapesAt(line) == SelectSeq([i \in 1..Len(line) |-> i], LAMBDA i : line[i] = "ESC")

\* the k-th colour escape of a line
EscapeNo(line, k) == SubSeq(line, EscapesAt(line)[k], EscapesAt(line)[k] + 4)

\* the colour in effect where the line ends
ColorAtEnd(line) == EscapeNo(line, Len(EscapesAt(line)))

IsRowLine(line) == IndexOf(line, "|") > 0

\* C12: when colour is active every produced line ends with the reset colour in
\* effect (a row, the star line, the final-address line and the empty-input
\* address line alike), and on a row the address field is followed by the reset
\* colour before the hex field starts.
C12_FieldsEndWithReset ==
    ColorActive =>
        \A k \in 1..Len(ProducedLines) :
            LET line == ProducedLines[k] IN
            Colored(line) =>
                /\ ColorAtEnd(line) = Fore_RESET
                /\ IsRowLine(line) => EscapeNo(line, 2) = Fore_RESET /\ EscapesAt(line)[2] <= 16

\* the dump was made without color: neither the argument nor the flag asked for it
ColorNotRequested == call.result # None /\ ~call.color /\ ~call.flag

\* the visible characters of a row between its address field and the first bar
VisibleGap(line) == IndexOf(Visible(line), "|") - 1 - 8

\* all characters of a row, escapes included, between its address digits and the first bar
RawGap(line) == IndexOf(line, "|") - 1 - (IF Colored(line) THEN 13 ELSE 8)

\* the number of bytes a row shows between its bars
RowBytes(line) == LET v == Visible(Body(line)) IN Len(v) - IndexOf(v, "|") - 1

\* C13: on every row of 1 to 16 bytes, with color not requested or with color
\* active (the colour library present), the visible characters between the
\* address field and the opening bar number the same as on a full 16-byte row
\* without color; with color active the row carries exactly five more characters
\* per byte, and five for the reset before the bar, which are the escapes.
C13_GutterColumn ==
    (ColorNotRequested \/ ColorActive) =>
        \A k \in 1..Len(ProducedLines) :
            LET line == ProducedLines[k] IN
            IsRowLine(line) =>
                /\ RowBytes(line) \in 1..16
                /\ VisibleGap(line) = VisibleGap(PlainRowLine(gen, ZeroRow, 0))
                /\ RawGap(line) = VisibleGap(line)
                                  + (IF ColorActive THEN 5 * (RowBytes(line) + 1) ELSE 0)

C13_Witness ==
    /\ ColorActive
    /\ ret.kind = "str"
    /\ Len(data.bytes) = 5
    /\ \E k \in 1..Len(ProducedLines) :
           IsRowLine(ProducedLines[k]) /\ RowBytes(ProducedLines[k]) = 5

IsPrintable(b) == 32 <= b /\ b <= 126

\* the colour of the class of byte b
ClassColor(b) ==
    IF b = 0 THEN Fore_RESET ELSE IF IsPrintable(b) THEN Fore_YELLOW ELSE Fore_CYAN

\* the character shown for byte b in the ASCII field
Glyph(b) == IF IsPrintable(b) THEN PrintableChars[b - 31] ELSE "."

\* the dump of at most one row: its first line is the row of data.bytes
OneRowShown ==
    /\ call.result # None
    /\ data.kind = "bytes"
    /\ Len(data.bytes) \in 1..16
    /\ ProducedLines # <<>>

\* C14: every byte b of a row has the glyph b itself when 0x20 <= b <= 0x7e and
\* a dot otherwise in the ASCII field, with or without color; and when color is
\* active its two hex digits and its ASCII glyph each directly follow the colour of
\* its class: reset for 0x00, the printable colour for 0x20..0x7e, the
\* non-printable colour for every other value, 0x7f included.
C14_ByteClasses ==
    OneRowShown =>
        LET line == ProducedLines[1]
            n == Len(data.bytes)
            v == Visible(Body(line))
            bar == IndexOf(v, "|")
            e == EscapesAt(line)
        IN  /\ \A j \in 1..n : v[bar + j] = Glyph(data.bytes[j])
            /\ ColorActive =>
                /\ Len(e) = 2 * n + 3
                /\ \A j \in 1..n :
                    LET b == data.bytes[j]
                        h == e[1 + j]
                        a == e[n + 2 + j]
                    IN  /\ SubSeq(line, h, h + 6) = ClassColor(b) \o Format02x(b)
                        /\ SubSeq(line, a, a + 5) = ClassColor(b) \o <<Glyph(b)>>

C14_Witness ==
    /\ OneRowShown
    /\ ColorActive
    /\ ret.kind = "str"
    /\ data.bytes = ByteRow(7)

\* color was asked for, by the argument or the flag, and the colour library is missing
ColorRequestedNoLibrary == call.result # None /\ (call.color \/ call.flag) /\ ~colorama

\* the lines of the dump of the same data, offset and collapse with color = FALSE
PlainLines == Drain(_line_gen(data, offset, collapse, FALSE)).lines

\* C15: when color is requested and the colour library is missing, every line
\* produced is the line that color = FALSE produces for the same data, offset
\* and collapse, character for character, and holds no escape.
C15_FallbackIdentical ==
    (ColorRequestedNoLibrary /\ HasOutput) =>
        /\ ~Colored(ProducedText)
        /\ IF ret.kind = "str" THEN ret.value = Concat(PlainLines)
           ELSE IsPrefix(yielded, PlainLines)

====
